---- MODULE Spec2Model ----
(***************************************************************************)
(* Model of src/api/telegram/webhook.js: a Telegram webhook handler that   *)
(* forwards the message text to the Gemini generateContent API and relays  *)
(* the reply to the originating chat.  The file holds two variants of the  *)
(* handler (lines 1-99 and lines 101-240); variant selects which one an    *)
(* invocation runs.                                                        *)
(*                                                                         *)
(* JavaScript values are records with a kind field; strings are            *)
(* sequences of one-character strings.                                     *)
(***************************************************************************)
EXTENDS Integers, Sequences, FiniteSets, TLC

----------------------------------------------------------------------------
(* Bounds of the model *)

\* longest reply_text string the completion service returns
MaxLen == 4

\* most pieces a system instruction template is assembled from
MaxPieces == 3

----------------------------------------------------------------------------
(* JavaScript values *)

JUndef == [kind |-> "undefined"]

JNull == [kind |-> "null"]

JStr(s) == [kind |-> "string", val |-> s]

JNum(n) == [kind |-> "number", val |-> n]

\* !v is false exactly for truthy v
Truthy(v) ==
    CASE v.kind = "undefined" -> FALSE
      [] v.kind = "null"      -> FALSE
      [] v.kind = "string"    -> Len(v.val) > 0
      [] v.kind = "number"    -> v.val # 0
      [] OTHER                -> TRUE

\* v?.f : undefined when v is null, undefined, or has no property f
Get(v, f) ==
    IF v.kind = "object" /\ f \in DOMAIN v THEN v[f] ELSE JUndef

\* v?.[0] on an array value
First(v) ==
    IF v.kind = "array" /\ Len(v.items) > 0 THEN v.items[1] ELSE JUndef

\* a || d
OrDefault(a, d) == IF Truthy(a) THEN a ELSE d

----------------------------------------------------------------------------
(* Strings *)

Placeholder ==
    <<"{", "{", "B", "O", "O", "K", "I", "N", "G", "_", "L", "I", "N", "K", "}", "}">>

DefaultBookingLink ==
    <<"h", "t", "t", "p", "s", ":", "/", "/", "c", "a", "l", "e", "n", "d", "l", "y",
      ".", "c", "o", "m", "/", "y", "o", "u", "r", "-", "l", "i", "n", "k">>

DefaultModel ==
    <<"g", "e", "m", "i", "n", "i", "-", "2", ".", "5", "-", "f", "l", "a", "s", "h">>

\* White space as String.prototype.trim sees it (the characters the model draws from)
IsSpace(c) == c \in {" ", "\t", "\n"}

RECURSIVE TrimStart(_)
TrimStart(s) ==
    IF Len(s) > 0 /\ IsSpace(Head(s)) THEN TrimStart(Tail(s)) ELSE s

RECURSIVE TrimEnd(_)
TrimEnd(s) ==
    IF Len(s) > 0 /\ IsSpace(s[Len(s)]) THEN TrimEnd(SubSeq(s, 1, Len(s) - 1)) ELSE s

\* s.trim()
Trim(s) == TrimEnd(TrimStart(s))

\* pat occurs in s at index i (1-based)
MatchAt(s, pat, i) ==
    /\ i >= 1
    /\ i + Len(pat) - 1 <= Len(s)
    /\ SubSeq(s, i, i + Len(pat) - 1) = pat

Contains(s, pat) == \E i \in 1..Len(s) : MatchAt(s, pat, i)

\* the character U+0060 (grave accent)
Backtick == "U+0060"

\* GetSubstitution of ECMAScript for a string pattern (no captures): in the
\* replacement text $$ is $, $& the match, $ with a grave accent the text before the match and
\* $' the text after it; any other $ stands for itself.
RECURSIVE GetSubstitution(_, _, _, _)
GetSubstitution(matched, str, position, rep) ==
    IF Len(rep) = 0 THEN <<>>
    ELSE IF rep[1] = "$" /\ Len(rep) >= 2 /\ rep[2] \in {"$", "&", Backtick, "'"}
    THEN (CASE rep[2] = "$" -> <<"$">>
            [] rep[2] = "&" -> matched
            [] rep[2] = Backtick -> SubSeq(str, 1, position - 1)
            [] rep[2] = "'" -> SubSeq(str, position + Len(matched), Len(str)))
         \o GetSubstitution(matched, str, position, SubSeq(rep, 3, Len(rep)))
    ELSE <<rep[1]>> \o GetSubstitution(matched, str, position, Tail(rep))

RECURSIVE ReplaceFrom(_, _, _, _)
ReplaceFrom(s, pat, rep, i) ==
    IF i > Len(s) THEN <<>>
    ELSE IF MatchAt(s, pat, i)
    THEN GetSubstitution(pat, s, i, rep) \o ReplaceFrom(s, pat, rep, i + Len(pat))
    ELSE <<s[i]>> \o ReplaceFrom(s, pat, rep, i + 1)

\* s.replaceAll(pat, rep) for a non-empty string pattern
ReplaceAll(s, pat, rep) == ReplaceFrom(s, pat, rep, 1)

\* const prompt = systemPrompt.replaceAll("{{BOOKING_LINK}}", bookingLink)
ResolvePrompt(systemPrompt, bookingLink) ==
    ReplaceAll(systemPrompt, Placeholder, bookingLink)

----------------------------------------------------------------------------
(* JSON text of completion results *)

RECURSIVE SeqsUpTo(_, _)
SeqsUpTo(S, n) ==
    IF n = 0 THEN {<<>>}
    ELSE LET shorter == SeqsUpTo(S, n - 1)
         IN  shorter \cup {Append(s, c) : s \in shorter, c \in S}

ReplyChars == {" ", "a"}

ReplyStrings == SeqsUpTo(ReplyChars, MaxLen)

\* an object whose only property of interest is reply_text (JUndef: no such property)
ReplyObject(v) == [kind |-> "object", reply_text |-> v]

ReplyTextValues ==
    {JUndef, JNull, JNum(5), ReplyObject(JUndef)} \cup {JStr(s) : s \in ReplyStrings}

\* the values a completion text can parse to
AIValues ==
    {JNull, JNum(5), JStr(<<"a">>)} \cup {ReplyObject(v) : v \in ReplyTextValues}

Quote == <<"\"">>

ReplyTextKey == <<"r", "e", "p", "l", "y", "_", "t", "e", "x", "t">>

\* the property names that occur in JSON texts, as characters
KeyChars ==
    [ reply_text |-> ReplyTextKey,
      candidates |-> <<"c", "a", "n", "d", "i", "d", "a", "t", "e", "s">>,
      content    |-> <<"c", "o", "n", "t", "e", "n", "t">>,
      parts      |-> <<"p", "a", "r", "t", "s">>,
      text       |-> <<"t", "e", "x", "t">> ]

DigitChars == <<"0", "1", "2", "3", "4", "5", "6", "7", "8", "9">>

\* the decimal digits of a natural number
RECURSIVE Digits(_)
Digits(n) ==
    IF n < 10 THEN <<DigitChars[n + 1]>>
    ELSE Digits(n \div 10) \o <<DigitChars[(n % 10) + 1]>>

\* the content of a JSON string literal: quotes and backslashes escaped
RECURSIVE Escape(_)
Escape(s) ==
    IF Len(s) = 0 THEN <<>>
    ELSE (IF Head(s) \in {"\"", "\\"} THEN <<"\\", Head(s)>> ELSE <<Head(s)>>)
         \o Escape(Tail(s))

\* the JSON text of a value: null, a number, a string, an array, or an object
\* with one property (left out of the text when its value is undefined)
RECURSIVE Stringify(_)
Stringify(v) ==
    CASE v.kind = "null"   -> <<"n", "u", "l", "l">>
      [] v.kind = "number" -> Digits(v.val)
      [] v.kind = "string" -> Quote \o Escape(v.val) \o Quote
      [] v.kind = "array"  ->
            IF Len(v.items) = 0 THEN <<"[", "]">>
            ELSE <<"[">> \o Stringify(v.items[1]) \o <<"]">>
      [] v.kind = "object" ->
            LET k == CHOOSE k \in DOMAIN v \ {"kind"} : TRUE
            IN  IF v[k] = JUndef THEN <<"{", "}">>
                ELSE <<"{">> \o Quote \o KeyChars[k] \o Quote \o <<":">>
                     \o Stringify(v[k]) \o <<"}">>

\* candidate texts that are not JSON
GarbageTexts ==
    { <<"H", "i">>,
      <<"{">>,
      <<"{">> \o Quote \o ReplyTextKey \o Quote \o <<":">>,
      <<Backtick, Backtick, Backtick>> }

\* candidate texts the completion service may return
RawTexts == {Stringify(v) : v \in AIValues} \cup GarbageTexts

\* JSON.parse(raw) returns normally
IsJSON(raw) == \E v \in AIValues : Stringify(v) = raw

\* JSON.parse(raw), for a raw that is JSON: the value whose JSON text raw is
JSONParse(raw) == CHOOSE v \in AIValues : Stringify(v) = raw

----------------------------------------------------------------------------
(* Errors and responses *)

\* an Error: its name, the fixed start of its message, and the rest of the
\* message as a sequence of strings
Error(name, message, detail) == [name |-> name, message |-> message, detail |-> detail]

\* mustEnv: throw new Error("Missing env var: " + name)
MissingEnvError(v, name) ==
    Error("Error",
          IF v = 1 THEN "Missing env var: " ELSE "Missing required environment variable: ",
          <<name>>)

\* throw new Error("Gemini failed: " + res.status + " " + (await res.text()))
GeminiFailedError(v, status, body) ==
    Error("Error", IF v = 1 THEN "Gemini failed: " ELSE "Gemini API failed: ",
          Digits(status) \o <<" ">> \o body)

GeminiNoTextError(v) ==
    Error("Error",
          IF v = 1 THEN "Gemini returned no text." ELSE "Gemini returned empty response.",
          <<>>)

GeminiMalformedError == Error("Error", "Gemini returned malformed JSON.", <<>>)

\* throw new Error("Telegram sendMessage failed: " + res.status + " " + (await res.text()))
TelegramFailedError(status, body) ==
    Error("Error", "Telegram sendMessage failed: ", Digits(status) \o <<" ">> \o body)

\* the characters a JSON value may start with
ValueStart == {"{", "[", "\"", "-", "t", "f", "n"} \cup {DigitChars[i] : i \in DOMAIN DigitChars}

\* what JSON.parse, res.json() and request.json() throw on a text that is not
\* JSON: a SyntaxError whose message is the engine's and depends on the text.
\* The messages are those of V8 for the texts of GarbageTexts, HtmlText and the
\* empty text: the input ends where a value is expected, an object is opened
\* and no property name follows, or the first character starts no value.
ParserError(text) ==
    CASE Len(text) = 0 ->
            Error("SyntaxError", "Unexpected end of JSON input", <<>>)
      [] Len(text) > 0 /\ text[1] = "{" /\ (Len(text) = 1 \/ text[2] \notin {"\"", "}"}) ->
            Error("SyntaxError", "Expected property name or '}' in JSON at position ",
                  Digits(1))
      [] Len(text) > 2 /\ text[1] = "{" /\ text[2] = "\"" /\ text[Len(text)] = ":" ->
            Error("SyntaxError", "Unexpected end of JSON input", <<>>)
      [] Len(text) > 0 /\ text[1] \notin ValueStart ->
            Error("SyntaxError", "Unexpected token ",
                  <<"'", text[1], "'", ",", " ">> \o Quote \o text \o Quote
                  \o <<" is not valid JSON">>)

\* what fetch rejects with when the network call fails
NetworkError == Error("TypeError", "fetch failed", <<>>)

\* what res.json() and res.text() reject with when the body cannot be read
BodyReadError == Error("TypeError", "terminated", <<>>)

Response(status, body) == [status |-> status, body |-> body]

NoResponse == Response(0, "")

MethodNotAllowedResponse == Response(405, "Method Not Allowed")

UnauthorizedResponse == Response(401, "Unauthorized")

IgnoredResponse == Response(200, "{\"ok\":true,\"ignored\":true}")

OkResponse == Response(200, "{\"ok\":true}")

\* a catch block that answers with a server error instead of masking the failure
CatchResponseUnmasked == Response(500, "{\"ok\":false}")

\* the Response the catch block of handler returns
CatchResponse == Response(200, "{\"ok\":true}")

----------------------------------------------------------------------------
(* The reply text *)

\* the characters U+2014 and U+2019 of the fallback texts
EmDash == "U+2014"

RightQuote == "U+2019"

FallbackV1 ==
    <<"G", "o", "t", " ", "y", "o", "u", " ", EmDash, " ", "w", "h", "a", "t",
      RightQuote, "s", " ", "y", "o", "u", "r", " ", "w", "e", "b", "s", "i", "t", "e",
      " ", "o", "r", " ", "I", "G", " ", "l", "i", "n", "k", " ", "s", "o", " ", "I",
      " ", "c", "a", "n", " ", "t", "a", "k", "e", " ", "a", " ", "l", "o", "o", "k",
      "?">>

FallbackV2 ==
    <<"Q", "u", "i", "c", "k", " ", "q", "u", "e", "s", "t", "i", "o", "n", " ",
      EmDash, " ", "w", "h", "a", "t", RightQuote, "s", " ", "y", "o", "u", "r", " ",
      "w", "e", "b", "s", "i", "t", "e", " ", "o", "r", " ", "I", "G", " ", "l", "i",
      "n", "k", " ", "s", "o", " ", "I", " ", "c", "a", "n", " ", "t", "a", "k", "e",
      " ", "a", " ", "l", "o", "o", "k", "?">>

Fallback(v) == IF v = 1 THEN FallbackV1 ELSE FallbackV2

\* a reply sent as returned, without trimming
ReplyTextUntrimmed(v, ai) ==
    LET r == Get(ai, "reply_text")
    IN  IF r.kind = "string" /\ Truthy(JStr(Trim(r.val))) THEN r.val ELSE Fallback(v)

\* typeof ai?.reply_text === "string" && ai.reply_text.trim()
\*     ? ai.reply_text.trim() : <fallback>
ReplyText(v, ai) ==
    LET r == Get(ai, "reply_text")
    IN  IF r.kind = "string" /\ Truthy(JStr(Trim(r.val))) THEN Trim(r.val) ELSE Fallback(v)

----------------------------------------------------------------------------
(* State *)

VARIABLES
    variant,    \* which handler of the file runs: 1 (lines 51-99) or 2 (lines 188-240)
    env,        \* process.env
    request,    \* the Request passed to handler
    pc,         \* where the invocation is suspended
    locals,     \* the consts of handler that live across an await
    res,        \* the const res of callGemini / telegramSendMessage while its body is read
    settled,    \* how the promise of callGemini / telegramSendMessage has settled
    trace,      \* header reads, body reads, fetches, responses and console.error calls
    resp        \* the Response handler returns

vars == <<variant, env, request, pc, locals, res, settled, trace, resp>>

----------------------------------------------------------------------------
(* Outbound calls *)

\* the fetch issued by callGemini
GeminiRequest(apiKey, model, prompt, userText) ==
    [ api                |-> "gemini",
      method             |-> "POST",
      model              |-> model,
      key                |-> apiKey,
      systemInstruction  |-> prompt,
      userText           |-> userText,
      responseMimeType   |-> "application/json" ]

\* a send addressed to the chat id 0 whatever the inbound chat is
TelegramRequestFixedChat(botToken, chatId, text) ==
    [ api                      |-> "telegram",
      method                   |-> "POST",
      token                    |-> botToken,
      chat_id                  |-> JNum(0),
      text                     |-> text,
      disable_web_page_preview |-> TRUE ]

\* the fetch issued by telegramSendMessage
TelegramRequest(botToken, chatId, text) ==
    [ api                      |-> "telegram",
      method                   |-> "POST",
      token                    |-> botToken,
      chat_id                  |-> chatId,
      text                     |-> text,
      disable_web_page_preview |-> TRUE ]

\* what a fetch resolves or rejects with: net = "error" is a rejected fetch,
\* otherwise the response has the given status; its body is read later
HttpResponse(net, status) == [net |-> net, status |-> status]

NoHttpResponse == HttpResponse("none", 0)

\* how the reading of a response body ends: read = FALSE is a rejected read;
\* text is the body, json tells whether it is JSON text, data is the value it
\* parses to
Body(read, json, data, text) == [read |-> read, json |-> json, data |-> data, text |-> text]

UnreadableBody == Body(FALSE, FALSE, JUndef, <<>>)

TextBody(text) == Body(TRUE, FALSE, JUndef, text)

JsonBody(data) == Body(TRUE, TRUE, data, Stringify(data))

\* a test that takes every response for a success
ResOkAlways(r) == TRUE

\* res.ok
ResOk(r) == r.status >= 200 /\ r.status <= 299

JArray(items) == [kind |-> "array", items |-> items]

\* a generateContent response body whose first candidate's first part has text t
DataWithText(t) ==
    [ kind       |-> "object",
      candidates |-> JArray(<<[ kind    |-> "object",
                               content |-> [ kind  |-> "object",
                                             parts |-> JArray(<<[ kind |-> "object",
                                                                  text |-> t ]>>) ] ]>>) ]

\* data?.candidates?.[0]?.content?.parts?.[0]?.text
ExtractText(data) ==
    Get(First(Get(Get(First(Get(data, "candidates")), "content"), "parts")), "text")

GeminiData ==
    { JNull,
      [kind |-> "object", candidates |-> JUndef],
      [kind |-> "object", candidates |-> JArray(<<>>)],
      DataWithText(JUndef),
      DataWithText(JStr(<<>>)) }
    \cup {DataWithText(JStr(raw)) : raw \in RawTexts}

\* a body that is not JSON
HtmlText == <<"<", "h", "t", "m", "l", ">">>

\* the outcomes of await fetch(...)
FetchOutcomes(statuses) ==
    {HttpResponse("error", 0)} \cup {HttpResponse("ok", st) : st \in statuses}

GeminiResponses == FetchOutcomes({200, 500})

GeminiBodies ==
    {UnreadableBody, TextBody(<<>>), TextBody(HtmlText)}
    \cup {JsonBody(d) : d \in GeminiData}

TelegramResponses == FetchOutcomes({200, 400, 403})

TelegramBodies ==
    { UnreadableBody,
      TextBody(<<>>),
      TextBody(HtmlText),
      Body(TRUE, TRUE, JUndef, <<"{", "}">>) }

----------------------------------------------------------------------------
(* Trace events *)

HeaderRead == [ev |-> "headers.get"]

BodyRead == [ev |-> "request.json"]

Fetch(req) == [ev |-> "fetch", api |-> req.api, req |-> req]

Returned(api, r) == [ev |-> "response", api |-> api, res |-> r]

\* res.json() or res.text() is called
BodyCall(api, via) == [ev |-> "body.call", api |-> api, via |-> via]

\* the promise of res.json() or res.text() settles
BodySettled(api, via, body) == [ev |-> "body", api |-> api, via |-> via, body |-> body]

\* console.error("Invalid JSON from Gemini:", raw)
RawLog(raw) == [ev |-> "console.error", label |-> "Invalid JSON from Gemini:", raw |-> raw]

\* console.error(e) / console.error("Webhook Error:", err) in the catch of handler
CatchLog(v, e) ==
    [ev |-> "console.error", label |-> IF v = 1 THEN "" ELSE "Webhook Error:", err |-> e]

----------------------------------------------------------------------------
(* callGemini, from the response of its fetch on *)

NoError == Error("", "", <<>>)

\* a call that throws e after the console.error calls in logs
Threw(e, logs) == [thrown |-> TRUE, err |-> e, value |-> JUndef, logs |-> logs]

Returns(value) == [thrown |-> FALSE, err |-> NoError, value |-> value, logs |-> <<>>]

\* no awaited call of handler has settled yet
NotSettled == Returns(JUndef)

\* callGemini when res.text() settles (lines 43 and 167-168)
CallGeminiFailure(v, r, body) ==
    IF ~body.read THEN Threw(BodyReadError, <<>>)
    ELSE Threw(GeminiFailedError(v, r.status, body.text), <<>>)

\* callGemini when res.json() settles (lines 45-48 and 171-182)
CallGeminiResult(v, body) ==
    IF ~body.read THEN Threw(BodyReadError, <<>>)
    ELSE IF ~body.json THEN Threw(ParserError(body.text), <<>>)
    ELSE LET text == ExtractText(body.data)
         IN  IF ~Truthy(text) THEN Threw(GeminiNoTextError(v), <<>>)
             ELSE IF IsJSON(text.val) THEN Returns(JSONParse(text.val))
             ELSE IF v = 1 THEN Threw(ParserError(text.val), <<>>)
             ELSE Threw(GeminiMalformedError, <<RawLog(text.val)>>)

\* telegramSendMessage when res.text() settles (lines 21 and 128-129)
TelegramSendFailure(r, body) ==
    IF ~body.read THEN Threw(BodyReadError, <<>>)
    ELSE Threw(TelegramFailedError(r.status, body.text), <<>>)

----------------------------------------------------------------------------
(* handler *)

\* a handler that does not look at the method
MethodAllowedAny(method) == TRUE

\* request.method !== "POST" is false
MethodAllowed(method) == method = "POST"

\* mustEnv(name) throws
Missing(e, name) == ~Truthy(e[name])

RECURSIVE FirstMissing(_, _)
FirstMissing(e, names) ==
    IF names = <<>> THEN ""
    ELSE IF Missing(e, Head(names)) THEN Head(names)
    ELSE FirstMissing(e, Tail(names))

\* the mustEnv calls of handler before the secret check, in order
GateEnvNames(v) ==
    IF v = 1 THEN <<"TELEGRAM_BOT_TOKEN", "GEMINI_API_KEY", "AI_SYSTEM_PROMPT">>
    ELSE <<"TELEGRAM_BOT_TOKEN">>

\* the mustEnv calls of callGemini, in order (variant 1 gets its values as arguments)
CallGeminiEnvNames(v) ==
    IF v = 1 THEN <<>> ELSE <<"JIM_API_KEY", "AI_SYSTEM_PROMPT">>

NoLocals ==
    [ BOT_TOKEN     |-> JUndef,
      GEMINI_KEY    |-> JUndef,
      SYSTEM_PROMPT |-> JUndef,
      BOOKING_LINK  |-> JUndef,
      GEMINI_MODEL  |-> JUndef,
      chatId        |-> JUndef ]

\* the consts handler sets before the secret check
GateLocals(v, e) ==
    [ BOT_TOKEN     |-> e.TELEGRAM_BOT_TOKEN,
      GEMINI_KEY    |-> IF v = 1 THEN e.GEMINI_API_KEY ELSE JUndef,
      SYSTEM_PROMPT |-> IF v = 1 THEN e.AI_SYSTEM_PROMPT ELSE JUndef,
      BOOKING_LINK  |-> OrDefault(e.BOOKING_LINK, JStr(DefaultBookingLink)),
      GEMINI_MODEL  |-> IF v = 1 THEN OrDefault(e.GEMINI_MODEL, JStr(DefaultModel))
                        ELSE JUndef,
      chatId        |-> JUndef ]

\* return new Response(...)
Respond(r, tr) ==
    /\ resp' = r
    /\ trace' = tr
    /\ pc' = "done"

\* the catch block of handler
Caught(e, tr) == Respond(CatchResponse, Append(tr, CatchLog(variant, e)))

\* handler, from its start to its first await (request.json())
HandlerGate ==
    /\ pc = "start"
    /\ IF ~MethodAllowed(request.method)
       THEN Respond(MethodNotAllowedResponse, trace) /\ UNCHANGED locals
       ELSE LET missing == FirstMissing(env, GateEnvNames(variant))
            IN  IF missing # ""
                THEN Caught(MissingEnvError(variant, missing), trace) /\ UNCHANGED locals
                ELSE LET expectedSecret == env.TELEGRAM_WEBHOOK_SECRET
                         checked == Truthy(expectedSecret)
                         tr == IF checked THEN Append(trace, HeaderRead) ELSE trace
                     IN  IF checked /\ request.secretHeader # expectedSecret
                         THEN Respond(UnauthorizedResponse, tr) /\ UNCHANGED locals
                         ELSE /\ trace' = Append(tr, BodyRead)
                              /\ pc' = "awaitBody"
                              /\ locals' = GateLocals(variant, env)
                              /\ UNCHANGED resp
    /\ UNCHANGED <<variant, env, request, res, settled>>

\* handler, from the settling of request.json() to its await of callGemini:
\* callGemini runs to its fetch, or (variant 2) is rejected by a mustEnv
\* that throws
HandlerParsed ==
    /\ pc = "awaitBody"
    /\ IF ~request.body.json
       THEN Caught(ParserError(request.body.text), trace) /\ UNCHANGED <<locals, settled>>
       ELSE LET update == request.body.value
                msg == Get(update, "message")
                chatId == Get(Get(msg, "chat"), "id")
                userText == Get(msg, "text")
                missing == FirstMissing(env, CallGeminiEnvNames(variant))
                apiKey == IF variant = 1 THEN locals.GEMINI_KEY ELSE env.JIM_API_KEY
                systemPrompt ==
                    IF variant = 1 THEN locals.SYSTEM_PROMPT ELSE env.AI_SYSTEM_PROMPT
                model ==
                    IF variant = 1 THEN locals.GEMINI_MODEL
                    ELSE OrDefault(env.GEMINI_MODEL, JStr(DefaultModel))
            IN  IF ~Truthy(chatId) \/ ~Truthy(userText)
                THEN Respond(IgnoredResponse, trace) /\ UNCHANGED <<locals, settled>>
                ELSE /\ locals' = [locals EXCEPT !.chatId = chatId]
                     /\ UNCHANGED resp
                     /\ IF missing # ""
                        THEN /\ settled' = Threw(MissingEnvError(variant, missing), <<>>)
                             /\ pc' = "callGeminiSettled"
                             /\ UNCHANGED trace
                        ELSE /\ trace' = Append(trace, Fetch(GeminiRequest(
                                            apiKey.val, model.val,
                                            ResolvePrompt(systemPrompt.val,
                                                          locals.BOOKING_LINK.val),
                                            userText.val)))
                             /\ pc' = "awaitGemini"
                             /\ UNCHANGED settled
    /\ UNCHANGED <<variant, env, request, res>>

\* callGemini, from the settling of its fetch to res.text() or res.json(), or
\* to its rejection when the fetch is rejected
CallGeminiResponded ==
    /\ pc = "awaitGemini"
    /\ \E r \in GeminiResponses :
          LET tr == Append(trace, Returned("gemini", r))
          IN  IF r.net = "error"
              THEN /\ settled' = Threw(NetworkError, <<>>)
                   /\ trace' = tr
                   /\ pc' = "callGeminiSettled"
                   /\ UNCHANGED res
              ELSE /\ res' = r
                   /\ UNCHANGED settled
                   /\ IF ~ResOk(r)
                      THEN /\ trace' = Append(tr, BodyCall("gemini", "text"))
                           /\ pc' = "awaitGeminiText"
                      ELSE /\ trace' = Append(tr, BodyCall("gemini", "json"))
                           /\ pc' = "awaitGeminiJson"
    /\ UNCHANGED <<variant, env, request, locals, resp>>

\* callGemini, from the settling of res.text() to its throw
CallGeminiFailed ==
    /\ pc = "awaitGeminiText"
    /\ \E body \in GeminiBodies :
          /\ settled' = CallGeminiFailure(variant, res, body)
          /\ trace' = Append(trace, BodySettled("gemini", "text", body))
    /\ pc' = "callGeminiSettled"
    /\ UNCHANGED <<variant, env, request, locals, res, resp>>

\* callGemini, from the settling of res.json() to its return or throw
CallGeminiParsed ==
    /\ pc = "awaitGeminiJson"
    /\ \E body \in GeminiBodies :
          LET ai == CallGeminiResult(variant, body)
          IN  /\ settled' = ai
              /\ trace' = Append(trace, BodySettled("gemini", "json", body)) \o ai.logs
    /\ pc' = "callGeminiSettled"
    /\ UNCHANGED <<variant, env, request, locals, res, resp>>

\* handler, resumed after callGemini has settled: its catch block, or on to
\* the fetch of telegramSendMessage
HandlerCompleted ==
    /\ pc = "callGeminiSettled"
    /\ IF settled.thrown
       THEN Caught(settled.err, trace)
       ELSE /\ trace' = Append(trace, Fetch(TelegramRequest(
                           locals.BOT_TOKEN.val, locals.chatId,
                           ReplyText(variant, settled.value))))
            /\ pc' = "awaitTelegram"
            /\ UNCHANGED resp
    /\ UNCHANGED <<variant, env, request, locals, res, settled>>

\* telegramSendMessage, from the settling of its fetch to res.text(), to its
\* return for a success, or to its rejection when the fetch is rejected
TelegramSendResponded ==
    /\ pc = "awaitTelegram"
    /\ \E r \in TelegramResponses :
          LET tr == Append(trace, Returned("telegram", r))
          IN  IF r.net = "error"
              THEN /\ settled' = Threw(NetworkError, <<>>)
                   /\ trace' = tr
                   /\ pc' = "sendSettled"
                   /\ UNCHANGED res
              ELSE IF ResOk(r)
              THEN /\ settled' = Returns(JUndef)
                   /\ trace' = tr
                   /\ pc' = "sendSettled"
                   /\ UNCHANGED res
              ELSE /\ res' = r
                   /\ trace' = Append(tr, BodyCall("telegram", "text"))
                   /\ pc' = "awaitTelegramText"
                   /\ UNCHANGED settled
    /\ UNCHANGED <<variant, env, request, locals, resp>>

\* telegramSendMessage, from the settling of res.text() to its throw
TelegramSendFailed ==
    /\ pc = "awaitTelegramText"
    /\ \E body \in TelegramBodies :
          /\ settled' = TelegramSendFailure(res, body)
          /\ trace' = Append(trace, BodySettled("telegram", "text", body))
    /\ pc' = "sendSettled"
    /\ UNCHANGED <<variant, env, request, locals, res, resp>>

\* handler, resumed after telegramSendMessage has settled: its catch block, or
\* its return
HandlerSent ==
    /\ pc = "sendSettled"
    /\ IF settled.thrown
       THEN Caught(settled.err, trace)
       ELSE Respond(OkResponse, trace)
    /\ UNCHANGED <<variant, env, request, locals, res, settled>>

Next ==
    \/ HandlerGate
    \/ HandlerParsed
    \/ CallGeminiResponded
    \/ CallGeminiFailed
    \/ CallGeminiParsed
    \/ HandlerCompleted
    \/ TelegramSendResponded
    \/ TelegramSendFailed
    \/ HandlerSent

----------------------------------------------------------------------------
(* Initial states: the configurations and requests an invocation starts from *)

Tok == <<"t", "o", "k">>

Key == <<"k", "e", "y">>

Secret == <<"s">>

\* a system instruction template with one placeholder
BookTemplate == <<"B", "o", "o", "k", " ">> \o Placeholder

PlainLink == <<"u">>

Chats ==
    {JUndef}
    \cup {[kind |-> "object", id |-> i] : i \in {JUndef, JNum(0), JNum(42), JNum(7)}}

Texts == {JUndef, JStr(<<>>), JStr(<<"h", "i">>)}

Messages ==
    {JUndef} \cup {[kind |-> "object", chat |-> c, text |-> t] : c \in Chats, t \in Texts}

Updates == {JNull} \cup {[kind |-> "object", message |-> m] : m \in Messages}

\* request bodies: json tells whether request.json() resolves, value is what it
\* resolves to, text is the body when it is not JSON
Bodies ==
    {[json |-> FALSE, value |-> JUndef, text |-> t] : t \in {<<>>, HtmlText}}
    \cup {[json |-> TRUE, value |-> u, text |-> <<>>] : u \in Updates}

Requests ==
    [ method       : {"GET", "POST"},
      secretHeader : {JNull, JStr(Secret), JStr(<<"x">>)},
      body         : Bodies ]

Environments ==
    [ TELEGRAM_BOT_TOKEN      : {JUndef, JStr(<<>>), JStr(Tok)},
      GEMINI_API_KEY          : {JUndef, JStr(Key)},
      JIM_API_KEY             : {JUndef, JStr(Key)},
      AI_SYSTEM_PROMPT        : {JUndef, JStr(BookTemplate)},
      BOOKING_LINK            : {JUndef, JStr(PlainLink)},
      GEMINI_MODEL            : {JUndef, JStr(<<"m">>)},
      TELEGRAM_WEBHOOK_SECRET : {JUndef, JStr(<<>>), JStr(Secret)} ]

Init ==
    /\ variant \in {1, 2}
    /\ env \in Environments
    /\ request \in Requests
    /\ pc = "start"
    /\ locals = NoLocals
    /\ res = NoHttpResponse
    /\ settled = NotSettled
    /\ trace = <<>>
    /\ resp = NoResponse

Spec == Init /\ [][Next]_vars

----------------------------------------------------------------------------
(* Prompt resolution: templates and booking links *)

TemplatePieces ==
    { Placeholder,
      <<"H", "i", " ">>,
      SubSeq(Placeholder, 1, 14),
      SubSeq(Placeholder, 1, 3),
      SubSeq(Placeholder, 6, 16) }

RECURSIVE Concatenations(_, _)
Concatenations(S, n) ==
    IF n = 0 THEN {<<>>}
    ELSE LET shorter == Concatenations(S, n - 1)
         IN  shorter \cup {s \o t : s \in shorter, t \in S}

Templates == Concatenations(TemplatePieces, MaxPieces) \ {<<>>}

BookingLinks ==
    { JUndef,
      JStr(<<>>),
      JStr(PlainLink),
      JStr(<<"}", "}">>),
      JStr(<<"O", "O">>),
      JStr(Placeholder),
      JStr(<<"$", "&">>),
      JStr(<<"$", "$">>),
      JStr(<<"a", "$", "'">>),
      JStr(<<"$", Backtick>>),
      JStr(<<"$", "1">>) }

ValidUpdate ==
    [ kind    |-> "object",
      message |-> [ kind |-> "object",
                    chat |-> [kind |-> "object", id |-> JNum(42)],
                    text |-> JStr(<<"h", "i">>) ] ]

InitPrompt ==
    /\ variant \in {1, 2}
    /\ env \in [ TELEGRAM_BOT_TOKEN      : {JStr(Tok)},
                 GEMINI_API_KEY          : {JStr(Key)},
                 JIM_API_KEY             : {JStr(Key)},
                 AI_SYSTEM_PROMPT        : {JStr(t) : t \in Templates},
                 BOOKING_LINK            : BookingLinks,
                 GEMINI_MODEL            : {JUndef},
                 TELEGRAM_WEBHOOK_SECRET : {JUndef} ]
    /\ request = [ method       |-> "POST",
                   secretHeader |-> JNull,
                   body         |-> [json |-> TRUE, value |-> ValidUpdate, text |-> <<>>] ]
    /\ pc = "start"
    /\ locals = NoLocals
    /\ res = NoHttpResponse
    /\ settled = NotSettled
    /\ trace = <<>>
    /\ resp = NoResponse

\* an invocation up to the issue of the completion call
NextPrompt == HandlerGate \/ HandlerParsed

SpecPrompt == InitPrompt /\ [][NextPrompt]_vars

----------------------------------------------------------------------------
(* Reading the trace *)

\* the positions in the trace of the fetches sent to api
FetchesTo(api) ==
    {i \in DOMAIN trace : trace[i].ev = "fetch" /\ trace[i].api = api}

\* the positions in the trace of the responses received from api
ResponsesFrom(api) ==
    {i \in DOMAIN trace : trace[i].ev = "response" /\ trace[i].api = api}

\* the positions in the trace of the bodies res.json() (via = "json") or
\* res.text() (via = "text") delivered for a response from api
BodiesFrom(api, via) ==
    {i \in DOMAIN trace :
        trace[i].ev = "body" /\ trace[i].api = api /\ trace[i].via = via}

\* the response is a rejected fetch or has a non-success status
NonSuccess(r) == r.net = "error" \/ r.status \notin 200..299

NoOutboundCall == \A i \in DOMAIN trace : trace[i].ev # "fetch"

BodyWasRead == \E i \in DOMAIN trace : trace[i].ev = "request.json"

HeaderWasRead == \E i \in DOMAIN trace : trace[i].ev = "headers.get"

Done == pc = "done"

\* message.chat.id and message.text of the inbound payload (undefined for a body
\* that is not JSON)
InboundChatId ==
    IF request.body.json
    THEN Get(Get(Get(request.body.value, "message"), "chat"), "id")
    ELSE JUndef

InboundText ==
    IF request.body.json THEN Get(Get(request.body.value, "message"), "text") ELSE JUndef

SecretConfigured == Truthy(env.TELEGRAM_WEBHOOK_SECRET)

SecretMismatch == SecretConfigured /\ request.secretHeader # env.TELEGRAM_WEBHOOK_SECRET

\* the three mandatory configuration values of each variant
MandatoryNames(v) ==
    IF v = 1 THEN {"TELEGRAM_BOT_TOKEN", "GEMINI_API_KEY", "AI_SYSTEM_PROMPT"}
    ELSE {"TELEGRAM_BOT_TOKEN", "JIM_API_KEY", "AI_SYSTEM_PROMPT"}

MandatoryMissing == \E n \in MandatoryNames(variant) : ~Truthy(env[n])

\* the body of the completion response carries candidate text
HasText(body) ==
    /\ body.read
    /\ body.json
    /\ ExtractText(body.data).kind = "string"
    /\ Len(ExtractText(body.data).val) > 0

\* the body of the completion response carries candidate text that is not JSON
HasMalformedText(body) ==
    HasText(body) /\ \A v \in AIValues : Stringify(v) # ExtractText(body.data).val

\* the completion call has failed: rejected, non-success status, body unreadable
\* or not JSON, absent or empty candidate text, or text that is not JSON
CompletionFailed ==
    \/ \E i \in ResponsesFrom("gemini") : NonSuccess(trace[i].res)
    \/ \E i \in BodiesFrom("gemini", "json") :
          ~HasText(trace[i].body) \/ HasMalformedText(trace[i].body)

\* the completion call has returned a parsed result
CompletionSucceeded ==
    /\ \A i \in ResponsesFrom("gemini") : ~NonSuccess(trace[i].res)
    /\ \E i \in BodiesFrom("gemini", "json") :
          HasText(trace[i].body) /\ ~HasMalformedText(trace[i].body)

\* the send call has got a non-success response
SendFailed == \E i \in ResponsesFrom("telegram") : NonSuccess(trace[i].res)

\* the send call has got a success response
SendSucceeded == \E i \in ResponsesFrom("telegram") : ~NonSuccess(trace[i].res)

----------------------------------------------------------------------------
(* C1 *)

\* C1: a request whose method is not POST is answered 405 and no completion
\* or messaging call is issued, whatever the environment holds.
C1_NonPostRejected ==
    request.method # "POST" =>
        /\ NoOutboundCall
        /\ ~BodyWasRead
        /\ pc \in {"start", "done"}
        /\ Done => resp = MethodNotAllowedResponse

\* a GET answered while a mandatory value is missing
C1_Witness ==
    /\ Done
    /\ request.method = "GET"
    /\ MandatoryMissing
    /\ resp.status = 405

----------------------------------------------------------------------------
(* C2 *)

\* C2: a POST with a configured secret and an absent or different secret header
\* is answered 401, with no outbound call and without the body being read.
C2_SecretMismatchUnauthorized ==
    (Done /\ request.method = "POST" /\ SecretMismatch) =>
        /\ resp.status = 401
        /\ NoOutboundCall
        /\ ~BodyWasRead

\* C2 holds of every POST that finds the values read before the secret check
\* (the mustEnv calls of GateEnvNames) present: the only failures are those in
\* which the masked configuration error of C8 answers first.
C2_HoldsWhenGateEnvPresent ==
    FirstMissing(env, GateEnvNames(variant)) = "" => C2_SecretMismatchUnauthorized

----------------------------------------------------------------------------
(* C3 *)

\* the payload lacks message.chat.id or message.text (a body that is not JSON
\* lacks both)
LacksChatIdOrText == InboundChatId = JUndef \/ InboundText = JUndef

\* C3: a POST that passes the secret check and whose payload lacks
\* message.chat.id or message.text is answered 200 with ok:true and
\* ignored:true, and no outbound call is issued.
C3_UnusableIgnored ==
    (Done /\ request.method = "POST" /\ ~SecretMismatch /\ LacksChatIdOrText) =>
        /\ resp = IgnoredResponse
        /\ NoOutboundCall

\* C3 restricted to invocations with every mandatory value present: still
\* violated, by a body that is not JSON.
C3_UnusableIgnoredWhenConfigured == ~MandatoryMissing => C3_UnusableIgnored

\* C3 holds of every POST with the mandatory values present and a JSON body
C3_HoldsForJsonBodyWhenConfigured ==
    (~MandatoryMissing /\ request.body.json) => C3_UnusableIgnored

----------------------------------------------------------------------------
(* C4 *)

\* C4: once a completion call has failed, exactly one completion call and no
\* send call has been issued, nothing is left to do but read the error body,
\* reject callGemini and run the catch block of handler, and the invocation
\* ends with 200 {ok:true}.
C4_CompletionFailureMasked ==
    CompletionFailed =>
        /\ pc \in {"awaitGeminiText", "callGeminiSettled", "done"}
        /\ pc = "awaitGeminiText" => ENABLED CallGeminiFailed
        /\ pc = "callGeminiSettled" => settled.thrown /\ ENABLED HandlerCompleted
        /\ Done => resp = OkResponse
        /\ Cardinality(FetchesTo("gemini")) = 1
        /\ Cardinality(FetchesTo("telegram")) = 0

\* a completion call answered with text that is not JSON
C4_Witness ==
    /\ Done
    /\ \E i \in BodiesFrom("gemini", "json") : HasMalformedText(trace[i].body)
    /\ resp = OkResponse

\* a completion call answered with status 500, its body read, masked
C4_NonSuccessReached ==
    /\ Done
    /\ \E i \in ResponsesFrom("gemini") : trace[i].res.status = 500
    /\ \E i \in BodiesFrom("gemini", "text") : trace[i].body.text = HtmlText
    /\ resp = OkResponse

----------------------------------------------------------------------------
(* C5 *)

\* C5: once the send call has got a non-success response (after a completion
\* call that succeeded), exactly one send call and exactly one completion call
\* has been issued, nothing is left to do but read the error body, reject
\* telegramSendMessage and run the catch block of handler, and the invocation
\* ends with 200 {ok:true}.
C5_SendFailureMasked ==
    SendFailed =>
        /\ pc \in {"awaitTelegramText", "sendSettled", "done"}
        /\ pc = "awaitTelegramText" => ENABLED TelegramSendFailed
        /\ pc = "sendSettled" => settled.thrown /\ ENABLED HandlerSent
        /\ Done => resp = OkResponse
        /\ Cardinality(FetchesTo("telegram")) = 1
        /\ Cardinality(FetchesTo("gemini")) = 1
        /\ CompletionSucceeded

\* a send call answered with status 400, its body read, masked
C5_Witness ==
    /\ Done
    /\ \E i \in ResponsesFrom("telegram") :
          trace[i].res.net = "ok" /\ trace[i].res.status = 400
    /\ \E i \in BodiesFrom("telegram", "text") : trace[i].body.read
    /\ CompletionSucceeded
    /\ resp = OkResponse

----------------------------------------------------------------------------
(* C6 *)

\* C6: a send call is issued only after the completion call has returned and is
\* addressed to the chat id of the inbound event; when it succeeds the
\* invocation has issued exactly one completion call and one send call, has
\* nothing left to do but return, and answers 200 {ok:true}.
C6_OneCompletionThenOneSend ==
    /\ \A i \in FetchesTo("telegram") :
          /\ \E j \in BodiesFrom("gemini", "json") : j < i
          /\ \A j \in FetchesTo("gemini") \cup ResponsesFrom("gemini") : j < i
          /\ trace[i].req.chat_id = InboundChatId
          /\ Truthy(InboundChatId) /\ Truthy(InboundText)
    /\ SendSucceeded =>
          /\ pc \in {"sendSettled", "done"}
          /\ pc = "sendSettled" => ~settled.thrown /\ ENABLED HandlerSent
          /\ Done => resp = OkResponse
          /\ CompletionSucceeded
          /\ Cardinality(FetchesTo("gemini")) = 1
          /\ Cardinality(FetchesTo("telegram")) = 1

\* a reply delivered to chat 7
C6_Witness ==
    /\ Done
    /\ SendSucceeded
    /\ \E i \in FetchesTo("telegram") : trace[i].req.chat_id = JNum(7)
    /\ resp = OkResponse

----------------------------------------------------------------------------
(* C7 *)

\* t is s without its leading and trailing white space
IsTrimOf(t, s) ==
    \E i \in 1..(Len(s) + 1) : \E j \in 0..Len(s) :
        /\ t = SubSeq(s, i, j)
        /\ \A k \in 1..(i - 1) : IsSpace(s[k])
        /\ \A k \in (j + 1)..Len(s) : IsSpace(s[k])
        /\ i <= j => ~IsSpace(s[i]) /\ ~IsSpace(s[j])

\* the text the claim prescribes for the parsed completion result ai
PrescribedText(text, ai) ==
    LET r == Get(ai, "reply_text")
    IN  IF r.kind = "string" /\ (\E k \in 1..Len(r.val) : ~IsSpace(r.val[k]))
        THEN IsTrimOf(text, r.val) /\ Len(text) > 0
        ELSE text = Fallback(variant)

\* C7: the text of the send call is the trimmed reply_text of the parsed
\* completion result when that is a string with a character other than white
\* space, and the fallback text in every other case.
C7_SentTextFromReply ==
    \A i \in FetchesTo("telegram") :
        \E j \in BodiesFrom("gemini", "json") :
            /\ j < i
            /\ HasText(trace[j].body)
            /\ \E ai \in AIValues :
                  /\ Stringify(ai) = ExtractText(trace[j].body.data).val
                  /\ PrescribedText(trace[i].req.text, ai)

\* reply_text " a " sent as "a"
C7_Witness ==
    /\ \E j \in BodiesFrom("gemini", "json") :
          /\ HasText(trace[j].body)
          /\ ExtractText(trace[j].body.data).val
                = Stringify(ReplyObject(JStr(<<" ", "a", " ">>)))
    /\ \E i \in FetchesTo("telegram") : trace[i].req.text = <<"a">>

\* the fallback text sent for a reply_text of white space only
C7_FallbackReached ==
    /\ \E j \in BodiesFrom("gemini", "json") :
          /\ HasText(trace[j].body)
          /\ ExtractText(trace[j].body.data).val
                = Stringify(ReplyObject(JStr(<<" ", " ">>)))
    /\ \E i \in FetchesTo("telegram") : trace[i].req.text = Fallback(variant)

----------------------------------------------------------------------------
(* C8 *)

\* C8: when a mandatory configuration value is missing, a POST is not answered
\* with a success response, and no secret check, body read or outbound call
\* happens first.
C8_ConfigErrorNotMasked ==
    (request.method = "POST" /\ MandatoryMissing) =>
        /\ ~HeaderWasRead
        /\ ~BodyWasRead
        /\ NoOutboundCall
        /\ resp.status # 200

----------------------------------------------------------------------------
(* C9 *)

\* s with every occurrence of pat, found left to right, replaced by the text rep itself
RECURSIVE SubstituteLiterally(_, _, _)
SubstituteLiterally(s, pat, rep) ==
    IF Len(s) = 0 THEN <<>>
    ELSE IF MatchAt(s, pat, 1)
    THEN rep \o SubstituteLiterally(SubSeq(s, Len(pat) + 1, Len(s)), pat, rep)
    ELSE <<Head(s)>> \o SubstituteLiterally(Tail(s), pat, rep)

\* the booking link value in force: BOOKING_LINK, or the default when it is unset or empty
ConfiguredBookingLink == OrDefault(env.BOOKING_LINK, JStr(DefaultBookingLink)).val

PromptResolved(prompt) ==
    /\ prompt = SubstituteLiterally(env.AI_SYSTEM_PROMPT.val, Placeholder,
                                    ConfiguredBookingLink)
    /\ ~Contains(prompt, Placeholder)

\* C9: for every template and every booking link, the prompt of the
\* completion call is the template with the booking link in place of every
\* placeholder, and holds no placeholder.
C9_PromptResolvedForEveryLink ==
    \A i \in FetchesTo("gemini") : PromptResolved(trace[i].req.systemInstruction)

\* the template with the link itself put in place of every placeholder holds
\* no placeholder: a literal substitution does what C9 says
LiteralSubstitutionResolves ==
    ~Contains(SubstituteLiterally(env.AI_SYSTEM_PROMPT.val, Placeholder,
                                  ConfiguredBookingLink),
              Placeholder)

\* the link holds a $ followed by $, &, a grave accent or an apostrophe: a
\* pattern replaceAll expands instead of copying
HasDollarPattern(link) ==
    \E k \in 1..(Len(link) - 1) :
        link[k] = "$" /\ link[k + 1] \in {"$", "&", Backtick, "'"}

\* C9 restricted to the invocations in which a literal substitution does what
\* it says: violated, by the links replaceAll expands.
C9_ResolvedWhereLiteralSubstitutionResolves ==
    LiteralSubstitutionResolves => C9_PromptResolvedForEveryLink

\* the prompt is the literal substitution for every link without a pattern
\* replaceAll expands, and then holds no placeholder wherever the literal
\* substitution holds none
C9_HoldsWithoutDollarPattern ==
    \A i \in FetchesTo("gemini") :
        ~HasDollarPattern(ConfiguredBookingLink) =>
            /\ trace[i].req.systemInstruction
                  = SubstituteLiterally(env.AI_SYSTEM_PROMPT.val, Placeholder,
                                        ConfiguredBookingLink)
            /\ LiteralSubstitutionResolves => PromptResolved(trace[i].req.systemInstruction)

\* the link $& puts the placeholder back
C9_PlaceholderPutBack ==
    /\ ConfiguredBookingLink = <<"$", "&">>
    /\ LiteralSubstitutionResolves
    /\ \E i \in FetchesTo("gemini") : Contains(trace[i].req.systemInstruction, Placeholder)

----------------------------------------------------------------------------
(* C10 *)

\* the position of the console.error call of the catch block, 0 if there is none
CatchLogAt ==
    IF \E i \in DOMAIN trace : trace[i].ev = "console.error" /\ "err" \in DOMAIN trace[i]
    THEN CHOOSE i \in DOMAIN trace : trace[i].ev = "console.error" /\ "err" \in DOMAIN trace[i]
    ELSE 0

\* C10: when the completion service returns candidate text that is not JSON,
\* callGemini logs the raw text and then fails with its own malformed-JSON
\* error: that error, not the parser's exception, is what callGemini is
\* rejected with and what the catch block of handler receives.
C10_MalformedTextLoggedAndWrapped ==
    \A j \in BodiesFrom("gemini", "json") :
        HasMalformedText(trace[j].body) =>
            /\ pc \in {"callGeminiSettled", "done"}
            /\ pc = "callGeminiSettled" =>
                  settled.thrown /\ settled.err = GeminiMalformedError
            /\ Done => CatchLogAt > 0 /\ trace[CatchLogAt].err = GeminiMalformedError
            /\ \E k \in (j + 1)..Len(trace) :
                  /\ trace[k].ev = "console.error"
                  /\ "raw" \in DOMAIN trace[k]
                  /\ trace[k].raw = ExtractText(trace[j].body.data).val
                  /\ Done => k < CatchLogAt

\* variant 2 does what C10 says
C10_HoldsInVariant2 == variant = 2 => C10_MalformedTextLoggedAndWrapped

====
